---- MODULE Spec2Model ----
(***************************************************************************)
(* Model of play_math.ipynb: the AdditionDataset codec (construction of    *)
(* the train/test split, __len__, __getitem__) and the digit decoding of   *)
(* give_exam.                                                              *)
(*                                                                         *)
(* Spec      : the notebook's dataset objects and the calls made on them.  *)
(* SpecCodec : the pure encode -> sample -> decode pipeline applied to     *)
(*             every flat problem index of the chosen ndigit.              *)
(* SpecExam  : a give_exam call on the train or the test dataset, batch by *)
(*             batch, up to the print of the final score.                  *)
(***************************************************************************)
EXTENDS Integers, Sequences, FiniteSets

VARIABLES
    ndigit,     \* the notebook global `ndigit` (cell "create a dataset")
    salt,       \* which shuffle the library generator yields for a seed
    dataset,    \* split name -> the AdditionDataset object bound to it
    ret_len,    \* what the last __len__ call returned
    ret_item,   \* what the last __getitem__ call returned (or raised)
    nconstructed, \* how many AdditionDataset objects have been constructed
    pc,         \* position of the codec pipeline
    cidx,       \* the flat problem index the pipeline works on
    enc,        \* locals of __getitem__ after encoding cidx
    smp,        \* d1d2d3, the sequence handed back by sample()
    dec,        \* d1i, d2i, d3i_pred, d3i_gt, correct of give_exam
    prompt,     \* d1d2, the prompt give_exam hands to sample()
    exam        \* arguments and locals of a give_exam call

vars ==
    <<ndigit, salt, dataset, ret_len, ret_item, nconstructed, pc, cidx, enc, smp, dec,
      prompt, exam>>

(***************************************************************************)
(* Bounds of the model                                                     *)
(***************************************************************************)
MaxSalt == 1
MaxProbe == 2
MaxConstructed == 3
MaxNet == 1
MaxBatches == 2

(***************************************************************************)
(* Program constants                                                       *)
(***************************************************************************)
NotebookNdigit == 2
Seed == 1337
VocabSize == 10
MaxTest == 1000
IgnoreIndex == -100

Splits == {"train", "test"}

Min(p, q) == IF p < q THEN p ELSE q
Max(p, q) == IF p > q THEN p ELSE q

\* s[start:stop] of a Python sequence: 0-based, stop excluded, a negative
\* bound counts from the end, and bounds beyond the ends are clipped
SliceBound(i, n) == IF i < 0 THEN Max(n + i, 0) ELSE Min(i, n)
PySlice(s, start, stop) ==
    SubSeq(s, SliceBound(start, Len(s)) + 1, SliceBound(stop, Len(s)))

(***************************************************************************)
(* numpy: RandomState(seed).permutation(num).  The generator is a          *)
(* deterministic function of its seed; which permutation it produces is    *)
(* left open (salt) and is drawn from a family of affine permutations of   *)
(* 0..num-1 whose multiplier is coprime to 10.                             *)
(***************************************************************************)
\* faulty variant: one generator shared by all constructions, so that its
\* state has advanced by the time of the next construction
RandomStateShared(seed) == seed + salt + nconstructed

RandomState(seed) == seed + salt

UnitOf(r) == 10 * (r % 5) + <<1, 3, 7, 9>>[(r % 4) + 1]

Permutation(r, num) == [i \in 1..num |-> (UnitOf(r) * (i - 1) + 37 * r) % num]

(***************************************************************************)
(* AdditionDataset.__init__                                                *)
(***************************************************************************)
NumProblems(nd) == (10^nd)^2

\* faulty variant: the cap of 1000 is forgotten
NumTestUncapped(num) == (num * 2) \div 10

\* int(num*0.2) truncates the float product, which is num/5 rounded down
NumTest(num) == Min((num * 2) \div 10, MaxTest)

BlockSize(nd) == nd + nd + nd + 1 - 1

\* faulty variant: the train slice starts one element early
IxesOverlap(perm, num_test, split) ==
    IF split = "test" THEN PySlice(perm, 0, num_test)
                      ELSE PySlice(perm, num_test - 1, Len(perm))

\* perm[:num_test] if split == 'test' else perm[num_test:]
Ixes(perm, num_test, split) ==
    IF split = "test" THEN PySlice(perm, 0, num_test)
                      ELSE PySlice(perm, num_test, Len(perm))

None ==
    [built |-> FALSE, split |-> "", ndigit |-> 0, vocab_size |-> 0,
     block_size |-> 0, ixes |-> <<>>]

AdditionDataset(nd, split) ==
    LET num == NumProblems(nd)
        r == RandomState(Seed)
        perm == Permutation(r, num)
        num_test == NumTest(num)
    IN  [built |-> TRUE, split |-> split, ndigit |-> nd,
         vocab_size |-> VocabSize, block_size |-> BlockSize(nd),
         ixes |-> Ixes(perm, num_test, split)]

(***************************************************************************)
(* AdditionDataset.__getitem__                                             *)
(***************************************************************************)
DigitChar == <<"0", "1", "2", "3", "4", "5", "6", "7", "8", "9">>

\* the decimal digits of n >= 0, most significant first, no padding
RECURSIVE DecDigits(_)
DecDigits(n) == IF n < 10 THEN <<n>> ELSE Append(DecDigits(n \div 10), n % 10)

\* faulty variant: '%d' % n, no zero fill
ZeroPadNone(n, w) ==
    LET d == DecDigits(n)
    IN  [i \in 1..Len(d) |-> DigitChar[d[i] + 1]]

\* '%0wd' % n : at least w characters, zero-filled on the left, never cut
ZeroPad(n, w) ==
    LET d == DecDigits(n)
        s == [i \in 1..Len(d) |-> DigitChar[d[i] + 1]]
    IN  IF Len(s) >= w THEN s ELSE [i \in 1..(w - Len(s)) |-> "0"] \o s

\* int(s) of a one-character string
IntOfChar(s) == CHOOSE d \in 0..9 : DigitChar[d + 1] = s

\* faulty variants: the base 10 where the modulus 10**ndigit belongs
ProblemOfModTen(idx, nd) == <<idx \div nd, idx % 10>>
ProblemOfDivTen(idx, nd) == <<idx \div 10, idx % nd>>

\* a = idx // nd ; b = idx % nd
ProblemOf(idx, nd) == <<idx \div nd, idx % nd>>

\* faulty variant: the sum field as narrow as an addend
RenderNarrowSum(nd, a, b, c) == ZeroPad(a, nd) \o ZeroPad(b, nd) \o ZeroPad(c, nd)

Render(nd, a, b, c) == ZeroPad(a, nd) \o ZeroPad(b, nd) \o ZeroPad(c, nd + 1)

Dix(render) == [i \in 1..Len(render) |-> IntOfChar(render[i])]

\* dix[:-1] and dix[1:]
InputOf(dix) == PySlice(dix, 0, -1)
TargetOf(dix) == PySlice(dix, 1, Len(dix))

\* faulty variant: y[:ndigit*2] = -100
MaskYWide(y, nd) == [i \in 1..Len(y) |-> IF i <= nd * 2 THEN IgnoreIndex ELSE y[i]]

\* y[:ndigit*2-1] = -100
MaskY(y, nd) == [i \in 1..Len(y) |-> IF i <= nd * 2 - 1 THEN IgnoreIndex ELSE y[i]]

\* the body of __getitem__ once idx = self.ixes[idx] has been read
GetItemBody(nd_digits, idx) ==
    LET nd == 10^nd_digits
        ab == ProblemOf(idx, nd)
        a == ab[1]
        b == ab[2]
        c == a + b
        render == Render(nd_digits, a, b, c)
        dix == Dix(render)
    IN  [a |-> a, b |-> b, c |-> c, render |-> render, dix |-> dix,
         x |-> InputOf(dix), y |-> MaskY(TargetOf(dix), nd_digits)]

(***************************************************************************)
(* give_exam: decoding of the digits                                       *)
(***************************************************************************)
\* faulty variant: the [::-1] is forgotten
FactorsAscending(nd) == [j \in 1..(nd + 1) |-> 10^(j - 1)]

\* [10**i for i in range(ndigit+1)][::-1]
Factors(nd) == [j \in 1..(nd + 1) |-> 10^(nd + 1 - j)]

\* (u * v).sum(1) of two rows of the same width
RECURSIVE WeightedSum(_, _)
WeightedSum(u, v) ==
    IF Len(u) = 0 THEN 0
    ELSE u[1] * v[1] + WeightedSum(Tail(u), Tail(v))

\* sample(model, d1d2, ndigit+1): the prompt followed by the new digits
Sample(d1d2, digits) == d1d2 \o digits

\* faulty variant: x[:, :ndigit*2-1]
D1d2Short(x, nd) == PySlice(x, 0, nd * 2 - 1)

\* x[:, :ndigit*2]
D1d2(x, nd) == PySlice(x, 0, nd * 2)

\* faulty variant: d1d2d3[:, :ndigit+1]
D3First(d1d2d3, nd) == PySlice(d1d2d3, 0, nd + 1)

\* d1d2d3[:, -(ndigit+1):]
D3(d1d2d3, nd) == PySlice(d1d2d3, -(nd + 1), Len(d1d2d3))

Decode(d1d2, d1d2d3, nd) ==
    LET factors == Factors(nd)
        d3 == D3(d1d2d3, nd)
        d1i == WeightedSum(PySlice(d1d2, 0, nd), PySlice(factors, 1, Len(factors)))
        d2i == WeightedSum(PySlice(d1d2, nd, nd * 2), PySlice(factors, 1, Len(factors)))
        d3i_pred == WeightedSum(d3, factors)
        d3i_gt == d1i + d2i
    IN  [d1i |-> d1i, d2i |-> d2i, d3i_pred |-> d3i_pred, d3i_gt |-> d3i_gt,
         correct |-> (d3i_pred = d3i_gt)]

\* the w low decimal digits of v, most significant first
DigitRow(v, w) == [i \in 1..w |-> (v \div 10^(w - i)) % 10]

\* the digit rows the sampler is taken to answer with for an encoded
\* problem: the digits it was trained to give (what follows the prompt in
\* dix) and three rows derived from the sum
SampleOutcomes(nd, e) ==
    LET m == 10^(nd + 1)
    IN  {PySlice(e.dix, nd * 2, Len(e.dix))} \cup
        {DigitRow(v, nd + 1) : v \in {(e.c + 1) % m, (7 * e.c + 3) % m, m - 1 - e.c}}

(***************************************************************************)
(* Spec: the dataset objects of the notebook                               *)
(***************************************************************************)
NoLen == [called |-> FALSE, split |-> "", n |-> 0]
NoItem == [called |-> FALSE, split |-> "", idx |-> 0, raised |-> FALSE,
           x |-> <<>>, y |-> <<>>]
NoEnc == [a |-> 0, b |-> 0, c |-> 0, render |-> <<>>, dix |-> <<>>,
          x |-> <<>>, y |-> <<>>]
NoDec == [d1i |-> 0, d2i |-> 0, d3i_pred |-> 0, d3i_gt |-> 0, correct |-> FALSE]
NoExam ==
    [pc |-> "idle", split |-> "", batch_size |-> 0, max_batches |-> 0, net |-> 0,
     correct |-> <<>>, b |-> 0, cursor |-> 0, results |-> <<>>, scored |-> <<>>,
     printed |-> FALSE, numerator |-> 0, denominator |-> 0]

Init ==
    /\ ndigit \in 1..NotebookNdigit
    /\ salt \in 0..MaxSalt
    /\ dataset = [s \in Splits |-> None]
    /\ ret_len = NoLen
    /\ ret_item = NoItem
    /\ nconstructed = 0
    /\ pc = "idle"
    /\ cidx = 0
    /\ enc = NoEnc
    /\ smp = <<>>
    /\ dec = NoDec
    /\ prompt = <<>>
    /\ exam = NoExam

codecVars == <<pc, cidx, enc, smp, dec, prompt>>

\* train_dataset = AdditionDataset(ndigit=ndigit, split='train'), same for test
Construct(split) ==
    /\ nconstructed < MaxConstructed
    /\ dataset' = [dataset EXCEPT ![split] = AdditionDataset(ndigit, split)]
    /\ nconstructed' = nconstructed + 1
    /\ UNCHANGED <<ndigit, salt, ret_len, ret_item, codecVars, exam>>

\* len(dataset)
LenCall(split) ==
    /\ dataset[split].built
    /\ ret_len' = [called |-> TRUE, split |-> split, n |-> Len(dataset[split].ixes)]
    /\ UNCHANGED <<ndigit, salt, dataset, ret_item, nconstructed, codecVars, exam>>

\* the indices a caller is taken to ask for: both ends of the valid range,
\* the negative range, and just outside
IdxInputs(n) ==
    {i \in (-(n + 1))..n :
        \/ i < MaxProbe - n
        \/ (i >= -MaxProbe /\ i < MaxProbe)
        \/ i >= n - MaxProbe}

\* faulty variant: an index below 0 is refused
InBoundsNonNegative(idx, n) == idx >= 0 /\ idx < n

\* self.ixes[idx] of a numpy array: -n..-1 counts from the end, anything
\* outside -n..n-1 raises IndexError
InBounds(idx, n) == idx >= -n /\ idx < n
Position(idx, n) == IF idx < 0 THEN idx + n + 1 ELSE idx + 1

\* dataset[idx]
GetItem(split, idx) ==
    /\ dataset[split].built
    /\ LET self == dataset[split]
           n == Len(self.ixes)
       IN  IF InBounds(idx, n)
           THEN LET body == GetItemBody(self.ndigit, self.ixes[Position(idx, n)])
                IN  ret_item' = [called |-> TRUE, split |-> split, idx |-> idx,
                                 raised |-> FALSE, x |-> body.x, y |-> body.y]
           ELSE ret_item' = [called |-> TRUE, split |-> split, idx |-> idx,
                             raised |-> TRUE, x |-> <<>>, y |-> <<>>]
    /\ UNCHANGED <<ndigit, salt, dataset, ret_len, nconstructed, codecVars, exam>>

Next ==
    \/ \E split \in Splits : Construct(split)
    \/ \E split \in Splits : LenCall(split)
    \/ \E split \in Splits :
          \E idx \in IdxInputs(Len(dataset[split].ixes)) : GetItem(split, idx)

Spec == Init /\ [][Next]_vars

(***************************************************************************)
(* SpecCodec: __getitem__'s encoding, the sampler's answer and give_exam's *)
(* decoding, applied to every flat index of the problem space              *)
(***************************************************************************)
InitCodec ==
    /\ ndigit \in 1..NotebookNdigit
    /\ salt = 0
    /\ dataset = [s \in Splits |-> None]
    /\ ret_len = NoLen
    /\ ret_item = NoItem
    /\ nconstructed = 0
    /\ pc = "start"
    /\ cidx \in 0..(NumProblems(ndigit) - 1)
    /\ enc = NoEnc
    /\ smp = <<>>
    /\ dec = NoDec
    /\ prompt = <<>>
    /\ exam = NoExam

dataVars == <<ndigit, salt, dataset, ret_len, ret_item, nconstructed, exam>>

CodecEncode ==
    /\ pc = "start"
    /\ enc' = GetItemBody(ndigit, cidx)
    /\ pc' = "encoded"
    /\ UNCHANGED <<dataVars, cidx, smp, dec, prompt>>

CodecSample ==
    /\ pc = "encoded"
    /\ prompt' = D1d2(enc.x, ndigit)
    /\ \E digits \in SampleOutcomes(ndigit, enc) :
          smp' = Sample(prompt', digits)
    /\ pc' = "sampled"
    /\ UNCHANGED <<dataVars, cidx, enc, dec>>

CodecDecode ==
    /\ pc = "sampled"
    /\ dec' = Decode(prompt, smp, ndigit)
    /\ pc' = "decoded"
    /\ UNCHANGED <<dataVars, cidx, enc, smp, prompt>>

NextCodec == CodecEncode \/ CodecSample \/ CodecDecode

SpecCodec == InitCodec /\ [][NextCodec]_vars

(***************************************************************************)
(* SpecExam: give_exam(dataset, batch_size, max_batches) on the two        *)
(* datasets of the notebook                                                *)
(***************************************************************************)
\* the trained network is a fixed function from prompts to digits: net 0
\* answers every problem with its target digits, net k > 0 is off by k on
\* the problems whose sum is a multiple of k + 1
ModelAnswer(net, e, nd) ==
    IF net > 0 /\ e.c % (net + 1) = 0
    THEN DigitRow((e.c + net) % 10^(nd + 1), nd + 1)
    ELSE PySlice(e.dix, nd * 2, Len(e.dix))

\* DataLoader(dataset, batch_size=batch_size): the positions of the batch
\* that starts at cursor; batches are consecutive and the last may be short
BatchPositions(cursor, batch_size, n) ==
    [j \in 1..Min(batch_size, n - cursor) |-> cursor + j - 1]

\* correct[i] for the problem at position i of the dataset
Correct(self, i, net) ==
    LET body == GetItemBody(self.ndigit, self.ixes[i + 1])
        p == D1d2(body.x, ndigit)
        d1d2d3 == Sample(p, ModelAnswer(net, body, ndigit))
    IN  Decode(p, d1d2d3, ndigit).correct

\* int(correct[i])
IntOfBool(v) == IF v THEN 1 ELSE 0

\* the network and the datasets do not change during an exam, so neither
\* does the verdict a problem earns: correct[i] of every position of self
CorrectOf(self, net) == [i \in 1..Len(self.ixes) |-> Correct(self, i - 1, net)]

\* for i in range(x.size(0)): results.append(int(correct[i]))
ScoreBatch(correct, batch) == [j \in 1..Len(batch) |-> IntOfBool(correct[batch[j] + 1])]

\* np.sum(results)
RECURSIVE SumRange(_, _, _)
SumRange(s, lo, n) ==
    IF n = 0 THEN 0
    ELSE IF n = 1 THEN s[lo]
    ELSE SumRange(s, lo, n \div 2) + SumRange(s, lo + n \div 2, (n + 1) \div 2)

\* faulty variant: the limit is compared with b instead of b+1
BreakAfterLate(b, max_batches) == max_batches >= 0 /\ b >= max_batches

\* if max_batches >= 0 and b+1 >= max_batches: break
BreakAfter(b, max_batches) == max_batches >= 0 /\ b + 1 >= max_batches

\* the batch sizes and batch limits give_exam is called with for a dataset
\* of n problems: the default 32, the notebook's 1024 and the sizes that
\* cut the dataset in up to MaxBatches batches, with any limit; and the
\* smallest batch sizes with a limit that stops the loop
ExamArgs(n) ==
    (({32, 1024, n + 1} \cup {n \div k : k \in 1..MaxBatches})
        \X ((-1)..(MaxBatches + 1)))
    \cup ((1..MaxBatches) \X (0..(MaxBatches + 1)))

InitExam ==
    /\ ndigit \in 1..NotebookNdigit
    /\ salt \in 0..MaxSalt
    /\ dataset = [s \in Splits |-> AdditionDataset(ndigit, s)]
    /\ ret_len = NoLen
    /\ ret_item = NoItem
    /\ nconstructed = 2
    /\ pc = "idle"
    /\ cidx = 0
    /\ enc = NoEnc
    /\ smp = <<>>
    /\ dec = NoDec
    /\ prompt = <<>>
    /\ \E net \in 0..MaxNet :
          exam = [NoExam EXCEPT !.pc = "call", !.net = net,
                                !.correct = [s \in Splits |-> CorrectOf(dataset[s], net)]]

noExamVars ==
    <<ndigit, salt, dataset, ret_len, ret_item, nconstructed, codecVars>>

\* give_exam(dataset, batch_size, max_batches):
\* results = [] ; loader = DataLoader(dataset, batch_size=batch_size)
ExamCall(split, batch_size, max_batches) ==
    /\ exam.pc = "call"
    /\ exam' = [exam EXCEPT !.pc = "loop", !.split = split,
                            !.batch_size = batch_size, !.max_batches = max_batches,
                            !.results = <<>>, !.scored = <<>>, !.cursor = 0, !.b = 0]
    /\ UNCHANGED noExamVars

\* one iteration of `for b, (x, y) in enumerate(loader)`
ExamBatch ==
    /\ exam.pc = "loop"
    /\ exam.cursor < Len(dataset[exam.split].ixes)
    /\ \E batch \in {BatchPositions(exam.cursor, exam.batch_size,
                                     Len(dataset[exam.split].ixes))} :
           exam' = [exam EXCEPT
                       !.results = exam.results \o
                                   ScoreBatch(exam.correct[exam.split], batch),
                       !.scored = exam.scored \o batch,
                       !.cursor = exam.cursor + Len(batch),
                       !.b = exam.b + 1,
                       !.pc = IF BreakAfter(exam.b, exam.max_batches)
                              THEN "print" ELSE "loop"]
    /\ UNCHANGED noExamVars

\* the loader is exhausted and the for loop ends
ExamExhausted ==
    /\ exam.pc = "loop"
    /\ exam.cursor >= Len(dataset[exam.split].ixes)
    /\ exam' = [exam EXCEPT !.pc = "print"]
    /\ UNCHANGED noExamVars

\* print("final score: %d/%d ..." % (np.sum(results), len(results), ...))
ExamPrint ==
    /\ exam.pc = "print"
    /\ exam' = [exam EXCEPT !.pc = "done", !.printed = TRUE,
                            !.numerator = SumRange(exam.results, 1, Len(exam.results)),
                            !.denominator = Len(exam.results)]
    /\ UNCHANGED noExamVars

NextExam ==
    \/ \E split \in Splits :
          \E args \in ExamArgs(Len(dataset[split].ixes)) :
             ExamCall(split, args[1], args[2])
    \/ ExamBatch
    \/ ExamExhausted
    \/ ExamPrint

\* give_exam is straight-line sequential code: it keeps running while it
\* has a next statement
SpecExam == InitExam /\ [][NextExam]_vars /\ WF_vars(NextExam)

(***************************************************************************)
(* Properties                                                              *)
(***************************************************************************)
\* the value of a digit row read most significant digit first
RECURSIVE BigEndian(_)
BigEndian(digits) ==
    IF Len(digits) = 0 THEN 0
    ELSE 10 * BigEndian(SubSeq(digits, 1, Len(digits) - 1)) + digits[Len(digits)]

Encoded == pc \in {"encoded", "sampled", "decoded"}

\* C1: round trip. When the sequence decoded by give_exam is the encoding
\* of (a, b) itself, the three decoded numbers are a, b and a + b.
C1_RoundTrip ==
    (pc = "decoded" /\ smp = enc.dix) =>
        /\ enc.a \in 0..(10^ndigit - 1)
        /\ enc.b \in 0..(10^ndigit - 1)
        /\ dec.d1i = enc.a
        /\ dec.d2i = enc.b
        /\ dec.d3i_pred = enc.a + enc.b

C1_Witness ==
    /\ pc = "decoded"
    /\ smp = enc.dix
    /\ ndigit = 2
    /\ dec.d1i = 99
    /\ dec.d2i = 1
    /\ dec.d3i_pred = 100

\* C2: once both splits are constructed, their index sets are disjoint and
\* together they are all of 0 .. 10^(2*ndigit) - 1.
C2_SplitPartition ==
    (dataset["train"].built /\ dataset["test"].built) =>
        LET train == {dataset["train"].ixes[i] : i \in 1..Len(dataset["train"].ixes)}
            test == {dataset["test"].ixes[i] : i \in 1..Len(dataset["test"].ixes)}
        IN  /\ train \cap test = {}
            /\ train \cup test = 0..(10^(2 * ndigit) - 1)

C2_Witness ==
    /\ dataset["train"].built
    /\ dataset["test"].built
    /\ ndigit = 2
    /\ Len(dataset["test"].ixes) > 0
    /\ Len(dataset["train"].ixes) > 0

\* C3: x is the encoding without its last digit; y is the encoding without
\* its first digit with exactly its first 2*ndigit-1 positions set to -100;
\* what is left unmasked in y are the ndigit+1 digits of c; x holds digits
\* only.
C3_TrainingPair ==
    Encoded =>
        LET n == Len(enc.dix)
            k == 2 * ndigit - 1
        IN  /\ n >= 1
            /\ enc.x = [i \in 1..(n - 1) |-> enc.dix[i]]
            /\ Len(enc.y) = n - 1
            /\ Len(enc.y) = k + ndigit + 1
            /\ {i \in 1..Len(enc.y) : enc.y[i] = -100} = 1..k
            /\ \A i \in (k + 1)..(n - 1) : enc.y[i] = enc.dix[i + 1]
            /\ [j \in 1..(ndigit + 1) |-> enc.y[k + j]] = DigitRow(enc.c, ndigit + 1)
            /\ \A i \in 1..Len(enc.x) : enc.x[i] \in 0..9

C3_Witness ==
    /\ pc = "encoded"
    /\ ndigit = 2
    /\ enc.dix = <<0, 6, 3, 9, 0, 4, 5>>
    /\ enc.x = <<0, 6, 3, 9, 0, 4>>
    /\ enc.y = <<-100, -100, -100, 0, 4, 5>>

\* C4: the encoding has exactly 3*ndigit+1 elements, all of them decimal
\* digits: a zero-padded to ndigit, then b zero-padded to ndigit, then c
\* zero-padded to ndigit+1; x and y have 3*ndigit elements, the block size.
C4_EncodedShape ==
    Encoded =>
        /\ Len(enc.dix) = 3 * ndigit + 1
        /\ \A i \in 1..Len(enc.dix) : enc.dix[i] \in 0..9
        /\ enc.c = enc.a + enc.b
        /\ enc.a < 10^ndigit
        /\ enc.b < 10^ndigit
        /\ enc.c < 10^(ndigit + 1)
        /\ SubSeq(enc.dix, 1, ndigit) = DigitRow(enc.a, ndigit)
        /\ SubSeq(enc.dix, ndigit + 1, 2 * ndigit) = DigitRow(enc.b, ndigit)
        /\ SubSeq(enc.dix, 2 * ndigit + 1, 3 * ndigit + 1) = DigitRow(enc.c, ndigit + 1)
        /\ Len(enc.x) = 3 * ndigit
        /\ Len(enc.y) = 3 * ndigit
        /\ BlockSize(ndigit) = 3 * ndigit

C4_Witness ==
    /\ pc = "encoded"
    /\ ndigit = 2
    /\ enc.a = 7
    /\ enc.b = 5
    /\ enc.dix = <<0, 7, 0, 5, 0, 1, 2>>

\* C5: __len__ of the test split is min(floor(0.2 * 10^(2*ndigit)), 1000)
\* and __len__ of the train split is 10^(2*ndigit) minus that.
C5_SplitSizes ==
    ret_len.called =>
        LET total == 10^(2 * ndigit)
            fifth == total \div 5
            ntest == IF fifth <= 1000 THEN fifth ELSE 1000
        IN  ret_len.n = IF ret_len.split = "test" THEN ntest ELSE total - ntest

C5_Witness ==
    /\ ret_len.called
    /\ ret_len.split = "train"
    /\ ndigit = 2
    /\ ret_len.n = 9000

\* C6: idx |-> (idx // 10^ndigit, idx % 10^ndigit) maps 0 .. 10^(2*ndigit)-1
\* one-to-one onto all pairs (a, b) with 0 <= a, b < 10^ndigit.
C6_IndexBijection ==
    LET nd == 10^ndigit
        indices == 0..(nd * nd - 1)
        pairs == {ProblemOf(i, nd) : i \in indices}
    IN  /\ pairs = (0..(nd - 1)) \X (0..(nd - 1))
        /\ Cardinality(pairs) = Cardinality(indices)

C6_Witness ==
    /\ ret_item.called
    /\ ~ret_item.raised
    /\ ndigit = 2
    /\ ret_item.x[1] # 0
    /\ ret_item.x[4] # 0

\* C7: the sum of two ndigit-digit numbers has at most ndigit+1 digits, so
\* the rendered text is never longer than 3*ndigit+1 characters.
C7_SumFits ==
    Encoded =>
        /\ enc.c = enc.a + enc.b
        /\ enc.c < 10^(ndigit + 1)
        /\ Len(DecDigits(enc.c)) <= ndigit + 1
        /\ Len(enc.render) <= 3 * ndigit + 1
        /\ Len(enc.dix) <= 3 * ndigit + 1

C7_Witness ==
    /\ pc = "encoded"
    /\ ndigit = 2
    /\ enc.a = 99
    /\ enc.b = 99
    /\ enc.c = 198

\* C8: the predicted sum is the big-endian decimal value of exactly the last
\* ndigit+1 digits of the sampled sequence; the addends are the big-endian
\* values of the first and the second ndigit digits of x.
C8_DecodeBigEndian ==
    pc = "decoded" =>
        LET n == Len(smp)
        IN  /\ n >= ndigit + 1
            /\ dec.d3i_pred = BigEndian(SubSeq(smp, n - ndigit, n))
            /\ dec.d1i = BigEndian(SubSeq(enc.x, 1, ndigit))
            /\ dec.d2i = BigEndian(SubSeq(enc.x, ndigit + 1, 2 * ndigit))
            /\ dec.d3i_gt = dec.d1i + dec.d2i

C8_Witness ==
    /\ pc = "decoded"
    /\ ndigit = 2
    /\ dec.d1i = 85
    /\ dec.d2i = 50
    /\ SubSeq(smp, 5, 7) = <<1, 3, 6>>
    /\ dec.d3i_pred = 136
    /\ ~dec.correct

\* C9: with ndigit = 2, 85 + 50 is encoded as [8,5,5,0,1,3,5] and 6 + 39 as
\* [0,6,3,9,0,4,5].
C9_Examples ==
    (Encoded /\ ndigit = 2) =>
        /\ (enc.a = 85 /\ enc.b = 50) => enc.dix = <<8, 5, 5, 0, 1, 3, 5>>
        /\ (enc.a = 6 /\ enc.b = 39) => enc.dix = <<0, 6, 3, 9, 0, 4, 5>>
        /\ cidx = 8550 => (enc.a = 85 /\ enc.b = 50)
        /\ cidx = 639 => (enc.a = 6 /\ enc.b = 39)

C9_Witness ==
    /\ pc = "encoded"
    /\ ndigit = 2
    /\ cidx = 8550
    /\ enc.c = 135

\* C10: a dataset object that is constructed again holds the same index
\* sequence as before, no call changes a constructed object, and a
\* __getitem__ call with the index of the previous __getitem__ call on the
\* same split returns what that call returned.
C10_Deterministic ==
    [][ /\ \A s \in Splits :
              (dataset[s].built /\ dataset'[s].built) => dataset'[s] = dataset[s]
        /\ ( /\ ret_item.called
             /\ ret_item'.called
             /\ ret_item'.split = ret_item.split
             /\ ret_item'.idx = ret_item.idx ) => ret_item' = ret_item ]_vars

C10_Witness ==
    /\ nconstructed = 3
    /\ dataset["train"].built
    /\ dataset["test"].built
    /\ ret_item.called
    /\ ~ret_item.raised
    /\ ret_len.called

\* C11: a __getitem__ call whose index is outside 0 .. len-1, a negative
\* index included, raises and returns no pair, and every index inside
\* 0 .. len-1 returns a pair.
C11_OutsideRangeRaises ==
    ret_item.called =>
        LET n == Len(dataset[ret_item.split].ixes)
        IN  ret_item.raised <=> ~(ret_item.idx >= 0 /\ ret_item.idx < n)

\* C11 as amended: a __getitem__ call raises and returns no pair exactly
\* when its index is outside -len .. len-1; an index in 0 .. len-1 returns
\* the pair of the problem at that position and an index in -len .. -1 the
\* pair of the problem at position len + idx.
C11_OutsideWrappedRangeRaises ==
    ret_item.called =>
        LET self == dataset[ret_item.split]
            n == Len(self.ixes)
            idx == ret_item.idx
            at == IF idx < 0 THEN n + idx ELSE idx
        IN  /\ ret_item.raised <=> (idx < -n \/ idx >= n)
            /\ ret_item.raised => (ret_item.x = <<>> /\ ret_item.y = <<>>)
            /\ ~ret_item.raised =>
                  /\ Len(ret_item.x) = 3 * ndigit
                  /\ Len(ret_item.y) = 3 * ndigit
                  /\ BigEndian(SubSeq(ret_item.x, 1, 2 * ndigit)) = self.ixes[at + 1]

C11_Witness ==
    /\ ret_item.called
    /\ ~ret_item.raised
    /\ ret_item.idx = -1
    /\ ndigit = 2
    /\ Len(ret_item.x) = 6

\* the number of batches a loader cuts n problems into
CeilDiv(n, size) == (n + size - 1) \div size

ExamScoredRight ==
    LET n == Len(dataset[exam.split].ixes)
        full == CeilDiv(n, exam.batch_size)
        batches == IF exam.max_batches < 0 THEN full
                   ELSE Min(Max(exam.max_batches, 1), full)
    IN  /\ exam.b = batches
        /\ exam.printed
        /\ exam.denominator = Min(n, exam.batch_size * batches)
        /\ exam.denominator = Len(exam.results)
        /\ exam.numerator >= 0
        /\ exam.numerator <= exam.denominator

ExamInOrder ==
    /\ Len(exam.results) = Len(exam.scored)
    /\ exam.pc \in {"loop", "print", "done"} =>
          Len(exam.scored) <= Len(dataset[exam.split].ixes)
    /\ \A i \in 1..Len(exam.scored) : exam.scored[i] = i - 1

\* C12: give_exam terminates; the problems it has scored are the first ones
\* of the dataset, each once and in order; when it ends it has scored
\* ceil(N/B) batches if max_batches < 0 and min(max(max_batches, 1),
\* ceil(N/B)) batches otherwise, it reports min(N, B * batches) as the
\* denominator and a numerator that is not larger.
C12_ExamTerminates ==
    /\ <>(exam.pc = "done")
    /\ [](exam.pc = "done" => ExamScoredRight)
    /\ []ExamInOrder

C12_Witness ==
    /\ exam.pc = "done"
    /\ ndigit = 2
    /\ exam.max_batches = 0
    /\ exam.b = 1
    /\ exam.denominator = exam.batch_size
    /\ exam.denominator < Len(dataset[exam.split].ixes)
    /\ exam.numerator < exam.denominator
    /\ exam.numerator > 0

NotIgnored(v) == v # IgnoreIndex

\* C13: the prompt handed to the sampler is the 2*ndigit digits of a and b
\* at the head of x; the problem is recorded as correct exactly when the
\* ndigit+1 sampled digits decode to a + b, and exactly when they are the
\* entries of y that are not masked.
C13_VerdictMatchesTarget ==
    pc = "decoded" =>
        LET n == Len(smp)
            sampled == SubSeq(smp, n - ndigit, n)
        IN  /\ prompt = DigitRow(enc.a, ndigit) \o DigitRow(enc.b, ndigit)
            /\ prompt = SubSeq(enc.x, 1, 2 * ndigit)
            /\ n = 3 * ndigit + 1
            /\ dec.correct <=> (BigEndian(sampled) = enc.a + enc.b)
            /\ dec.correct <=> (sampled = SelectSeq(enc.y, NotIgnored))

C13_Witness ==
    /\ pc = "decoded"
    /\ ndigit = 2
    /\ dec.correct
    /\ prompt = <<0, 6, 3, 9>>
    /\ smp = <<0, 6, 3, 9, 0, 4, 5>>

====
